---- MODULE Spec2Model ----
(***************************************************************************)
(* Model of the AI Todo store (src/src/App.tsx): the Todo collection, the  *)
(* filter, the theme, the text input and the two localStorage keys, with   *)
(* the handlers of the App component as actions.                           *)
(*                                                                         *)
(* A JavaScript string is a sequence of one-character strings.  A          *)
(* JavaScript value is a record whose field names tell its type:           *)
(*   [t |-> "undef"]  [t |-> "null"]  [t |-> "bool", b |-> BOOLEAN]        *)
(*   [t |-> "num", n |-> Int]   [t |-> "str", s |-> string]                *)
(*   [t |-> "arr", a |-> sequence of values]                               *)
(*   [t |-> "obj", o |-> sequence of [k |-> string, v |-> value]]          *)
(* An object keeps its own properties in JavaScript's order: integer-like  *)
(* keys ascending, then the other keys in insertion order.  Numbers are    *)
(* integers (Date.now() is one); JSON texts with fractions or exponents    *)
(* are outside the model's domain, as are the escapes \b and \uXXXX.        *)
(*                                                                         *)
(* A behaviour starts before the first render ("boot"), with whatever the  *)
(* two localStorage keys hold; Mount is the first render with its effects. *)
(* Every handler is one action that includes the render and the effect     *)
(* that follow its state update.  localStorage may throw on any access     *)
(* (disabled storage, exceeded quota): the outcome of every getItem and    *)
(* setItem is drawn on its own in each action.  The argument of a click    *)
(* on a task is the task's id, whatever its type (IdArg).  Of a render the *)
(* model keeps the derived values (filteredTodos, remainingCount), not the *)
(* JSX.                                                                    *)
(***************************************************************************)
EXTENDS Integers, Sequences, FiniteSets, TLC

\* ------------------------------------------------------------------ bounds
\* Number of ids crypto.randomUUID() hands out in one behaviour.
MaxIds == 2

\* ------------------------------------------------------------- JS values
Undefined == [t |-> "undef"]
Null == [t |-> "null"]
Bool(b) == [t |-> "bool", b |-> b]
Num(n) == [t |-> "num", n |-> n]
Str(s) == [t |-> "str", s |-> s]
Arr(a) == [t |-> "arr", a |-> a]
Obj(o) == [t |-> "obj", o |-> o]

\* Absent localStorage key (getItem returns null).
NoItem == [t |-> "null"]

Digits == <<"0", "1", "2", "3", "4", "5", "6", "7", "8", "9">>
IsDigit(c) == \E d \in 1..10 : Digits[d] = c
DigitVal(c) == (CHOOSE d \in 1..10 : Digits[d] = c) - 1

RECURSIVE NatToChars(_)
\* Number.prototype.toString for a non-negative integer.
NatToChars(n) ==
  IF n < 10 THEN <<Digits[n + 1]>>
  ELSE NatToChars(n \div 10) \o <<Digits[(n % 10) + 1]>>

NumToChars(n) == IF n < 0 THEN <<"-">> \o NatToChars(0 - n) ELSE NatToChars(n)

RECURSIVE CharsToNat(_, _)
CharsToNat(s, acc) ==
  IF s = <<>> THEN acc
  ELSE CharsToNat(Tail(s), acc * 10 + DigitVal(Head(s)))

RECURSIVE LexLess(_, _)
\* a < b for two digit strings of one length.
LexLess(a, b) ==
  IF a = <<>> THEN FALSE
  ELSE IF Head(a) # Head(b) THEN DigitVal(Head(a)) < DigitVal(Head(b))
  ELSE LexLess(Tail(a), Tail(b))

\* a < b for two canonical decimal numerals.
NumeralLess(a, b) ==
  Len(a) < Len(b) \/ (Len(a) = Len(b) /\ LexLess(a, b))

\* The largest array index, 2^32 - 2.
MaxArrayIndex == <<"4", "2", "9", "4", "9", "6", "7", "2", "9", "4">>

\* An own property key that JavaScript orders as an array index: a
\* canonical decimal numeral up to 2^32 - 2.
IsIndexKey(k) ==
  /\ Len(k) > 0
  /\ \A i \in 1..Len(k) : IsDigit(k[i])
  /\ (Len(k) > 1 => k[1] # "0")
  /\ ~NumeralLess(MaxArrayIndex, k)

HasKey(o, k) == \E i \in 1..Len(o) : o[i].k = k

\* Whether key a is enumerated before key b when b is inserted after a.
KeyBefore(a, b) ==
  IF IsIndexKey(b)
  THEN IsIndexKey(a) /\ NumeralLess(a, b)
  ELSE TRUE

RECURSIVE ObjInsert(_, _, _)
ObjInsert(o, k, v) ==
  IF o = <<>> THEN <<[k |-> k, v |-> v]>>
  ELSE IF KeyBefore(Head(o).k, k) THEN <<Head(o)>> \o ObjInsert(Tail(o), k, v)
  ELSE <<[k |-> k, v |-> v]>> \o o

\* o[k] = v on the property list o.
ObjPut(o, k, v) ==
  IF HasKey(o, k)
  THEN [i \in 1..Len(o) |-> IF o[i].k = k THEN [k |-> k, v |-> v] ELSE o[i]]
  ELSE ObjInsert(o, k, v)

\* Whether reading a property of x throws a TypeError.
Throws(x) == x.t \in {"null", "undef"}

\* x[k] for the property names the program reads (id, done): never a
\* built-in property of a string, an array or a number.
Get(x, k) ==
  IF x.t = "obj" /\ HasKey(x.o, k)
  THEN x.o[CHOOSE i \in 1..Len(x.o) : x.o[i].k = k].v
  ELSE Undefined

\* ToBoolean.
Truthy(x) ==
  CASE x.t = "bool" -> x.b
    [] x.t = "num" -> x.n # 0
    [] x.t = "str" -> x.s # <<>>
    [] x.t \in {"arr", "obj"} -> TRUE
    [] OTHER -> FALSE

\* x === s for a string s.
StrictEqStr(x, s) == x.t = "str" /\ x.s = s

\* The argument of toggleTodo and deleteTodo: [v |-> the value, from |-> k].
\* When the value is an object or an array, it is the one the click read
\* from the k-th task (JSON.parse and the spread never make two tasks share
\* one); from is 0 for every other value.
IdArg(v, k) == [v |-> v, from |-> IF v.t \in {"obj", "arr"} THEN k ELSE 0]

\* x === id.v, where x is the id of the i-th task: by value for a
\* primitive, by identity for an object or an array.
StrictEq(x, i, id) ==
  IF id.v.t \in {"obj", "arr"} THEN id.from = i ELSE x = id.v

\* The own enumerable properties { ...x } copies.
Spread(x) ==
  CASE x.t = "obj" -> x.o
    [] x.t = "arr" -> [i \in 1..Len(x.a) |-> [k |-> NatToChars(i - 1), v |-> x.a[i]]]
    [] x.t = "str" -> [i \in 1..Len(x.s) |->
                         [k |-> NatToChars(i - 1), v |-> Str(<<x.s[i]>>)]]
    [] OTHER -> <<>>

\* --------------------------------------------------------- JSON.stringify
Quote == "\""
Backslash == "\\"

\* The escape JSON.stringify writes for a character of a string.
EscapeChar(c) ==
  CASE c = Quote -> <<Backslash, Quote>>
    [] c = Backslash -> <<Backslash, Backslash>>
    [] c = "\n" -> <<Backslash, "n">>
    [] c = "\t" -> <<Backslash, "t">>
    [] c = "\r" -> <<Backslash, "r">>
    [] c = "\f" -> <<Backslash, "f">>
    [] OTHER -> <<c>>

RECURSIVE EscapeChars(_)
EscapeChars(s) ==
  IF s = <<>> THEN <<>> ELSE EscapeChar(Head(s)) \o EscapeChars(Tail(s))

QuoteJSONString(s) == <<Quote>> \o EscapeChars(s) \o <<Quote>>

RECURSIVE JSONstringify(_)
RECURSIVE StringifyElems(_, _)
RECURSIVE StringifyProps(_, _)
\* The elements of an array, comma separated; undefined is written null.
StringifyElems(a, first) ==
  IF a = <<>> THEN <<>>
  ELSE (IF first THEN <<>> ELSE <<",">>)
       \o (IF Head(a).t = "undef" THEN <<"n", "u", "l", "l">>
           ELSE JSONstringify(Head(a)))
       \o StringifyElems(Tail(a), FALSE)

\* The properties of an object; a property whose value is undefined is left out.
StringifyProps(o, first) ==
  IF o = <<>> THEN <<>>
  ELSE IF Head(o).v.t = "undef" THEN StringifyProps(Tail(o), first)
  ELSE (IF first THEN <<>> ELSE <<",">>)
       \o QuoteJSONString(Head(o).k) \o <<":">> \o JSONstringify(Head(o).v)
       \o StringifyProps(Tail(o), FALSE)

\* JSON.stringify(x) for a value other than undefined.
JSONstringify(x) ==
  CASE x.t = "null" -> <<"n", "u", "l", "l">>
    [] x.t = "bool" -> IF x.b THEN <<"t", "r", "u", "e">>
                              ELSE <<"f", "a", "l", "s", "e">>
    [] x.t = "num" -> NumToChars(x.n)
    [] x.t = "str" -> QuoteJSONString(x.s)
    [] x.t = "arr" -> <<"[">> \o StringifyElems(x.a, TRUE) \o <<"]">>
    [] x.t = "obj" -> <<"{">> \o StringifyProps(x.o, TRUE) \o <<"}">>

\* ------------------------------------------------------------- JSON.parse
\* The character at position i of s, or "" past its end.
At(s, i) == IF i >= 1 /\ i <= Len(s) THEN s[i] ELSE ""

JSONWhitespace == {" ", "\t", "\n", "\r"}
ControlChars == {"\t", "\n", "\r", "\f"}
Fail == [ok |-> FALSE]

RECURSIVE SkipWs(_, _)
SkipWs(s, i) == IF At(s, i) \in JSONWhitespace THEN SkipWs(s, i + 1) ELSE i

RECURSIVE DigitsEnd(_, _)
\* The first position at or after i that holds no digit.
DigitsEnd(s, i) == IF IsDigit(At(s, i)) THEN DigitsEnd(s, i + 1) ELSE i

\* A JSON number at i: -? (0 | [1-9][0-9]*), nothing of a fraction or exponent.
ParseNumber(s, i) ==
  LET neg == At(s, i) = "-"
      j == IF neg THEN i + 1 ELSE i
      e == IF At(s, j) = "0" THEN j + 1 ELSE DigitsEnd(s, j)
      n == CharsToNat(SubSeq(s, j, e - 1), 0)
  IN IF e = j \/ At(s, e) \in {".", "e", "E"} THEN Fail
     ELSE [ok |-> TRUE, v |-> Num(IF neg THEN 0 - n ELSE n), i |-> e]

\* The character an escape \c stands for, "" when the model has none.
Unescape(c) ==
  CASE c = Quote -> Quote
    [] c = Backslash -> Backslash
    [] c = "/" -> "/"
    [] c = "n" -> "\n"
    [] c = "t" -> "\t"
    [] c = "r" -> "\r"
    [] c = "f" -> "\f"
    [] OTHER -> ""

RECURSIVE ParseChars(_, _, _)
\* The rest of a JSON string whose opening quote precedes i.
ParseChars(s, i, acc) ==
  LET c == At(s, i) IN
  IF c = "" \/ c \in ControlChars THEN Fail
  ELSE IF c = Quote THEN [ok |-> TRUE, v |-> acc, i |-> i + 1]
  ELSE IF c = Backslash
       THEN IF Unescape(At(s, i + 1)) = "" THEN Fail
            ELSE ParseChars(s, i + 2, Append(acc, Unescape(At(s, i + 1))))
  ELSE ParseChars(s, i + 1, Append(acc, c))

Literal(s, i, word, v) ==
  IF i + Len(word) - 1 <= Len(s) /\ SubSeq(s, i, i + Len(word) - 1) = word
  THEN [ok |-> TRUE, v |-> v, i |-> i + Len(word)]
  ELSE Fail

RECURSIVE ParseValue(_, _)
RECURSIVE ParseElems(_, _, _)
RECURSIVE ParseMembers(_, _, _)
\* The elements of an array from the value at i to the closing bracket.
ParseElems(s, i, acc) ==
  LET r == ParseValue(s, i) IN
  IF ~r.ok THEN Fail
  ELSE LET j == SkipWs(s, r.i) IN
       IF At(s, j) = "," THEN ParseElems(s, SkipWs(s, j + 1), Append(acc, r.v))
       ELSE IF At(s, j) = "]" THEN [ok |-> TRUE, v |-> Arr(Append(acc, r.v)), i |-> j + 1]
       ELSE Fail

\* The members of an object from the key at i to the closing brace; a
\* repeated key keeps its first place and takes the last value.
ParseMembers(s, i, o) ==
  IF At(s, i) # Quote THEN Fail
  ELSE LET k == ParseChars(s, i + 1, <<>>) IN
       IF ~k.ok THEN Fail
       ELSE LET c == SkipWs(s, k.i) IN
            IF At(s, c) # ":" THEN Fail
            ELSE LET r == ParseValue(s, SkipWs(s, c + 1)) IN
                 IF ~r.ok THEN Fail
                 ELSE LET j == SkipWs(s, r.i)
                          o2 == ObjPut(o, k.v, r.v)
                      IN IF At(s, j) = "," THEN ParseMembers(s, SkipWs(s, j + 1), o2)
                         ELSE IF At(s, j) = "}" THEN [ok |-> TRUE, v |-> Obj(o2), i |-> j + 1]
                         ELSE Fail

\* The JSON value that starts at i (no leading whitespace).
ParseValue(s, i) ==
  LET c == At(s, i) IN
  CASE c = "n" -> Literal(s, i, <<"n", "u", "l", "l">>, Null)
    [] c = "t" -> Literal(s, i, <<"t", "r", "u", "e">>, Bool(TRUE))
    [] c = "f" -> Literal(s, i, <<"f", "a", "l", "s", "e">>, Bool(FALSE))
    [] c = Quote -> LET r == ParseChars(s, i + 1, <<>>) IN
                    IF r.ok THEN [ok |-> TRUE, v |-> Str(r.v), i |-> r.i] ELSE Fail
    [] c = "[" -> LET j == SkipWs(s, i + 1) IN
                  IF At(s, j) = "]" THEN [ok |-> TRUE, v |-> Arr(<<>>), i |-> j + 1]
                  ELSE ParseElems(s, j, <<>>)
    [] c = "{" -> LET j == SkipWs(s, i + 1) IN
                  IF At(s, j) = "}" THEN [ok |-> TRUE, v |-> Obj(<<>>), i |-> j + 1]
                  ELSE ParseMembers(s, j, <<>>)
    [] c = "-" \/ IsDigit(c) -> ParseNumber(s, i)
    [] OTHER -> Fail

\* JSON.parse(s): [ok |-> TRUE, v |-> value], or [ok |-> FALSE] for a SyntaxError.
JSONparse(s) ==
  LET r == ParseValue(s, SkipWs(s, 1)) IN
  IF r.ok /\ SkipWs(s, r.i) > Len(s) THEN [ok |-> TRUE, v |-> r.v] ELSE Fail

\* --------------------------------------------------------------- the store
VARIABLES
  phase,      \* "boot" before the first render, "running", "static" (rendered
              \* without a window: no effect, no handler), "crashed" (an
              \* uncaught error unmounted the component: its state is gone
              \* and the state variables hold their defaults)
  err,        \* "none", or what was thrown: "storage" (localStorage), "type"
  todos,      \* useState<Todo[]>: a sequence of JS values
  input,      \* useState(''): the text of the input field
  filter,     \* useState<'all' | 'active' | 'completed'>
  theme,      \* useState<'dark' | 'light'>
  darkClass,  \* whether <html> carries the class "dark"
  itemsKey,   \* localStorage 'ai-todo-items-v1': NoItem or Str(text)
  themeKey,   \* localStorage 'ai-todo-theme': NoItem or Str(text)
  uuids,      \* how many ids crypto.randomUUID() has returned
  ticks,      \* how far the clock behind Date.now() has advanced (one
              \* tick between two submissions)
  hist        \* history: [adds |-> submissions with a non-blank text since
              \* the first render, pure |-> the collection started empty and
              \* only additions changed it]

vars == <<phase, err, todos, input, filter, theme, darkClass, itemsKey,
          themeKey, uuids, ticks, hist>>

Dark == <<"d", "a", "r", "k">>
Light == <<"l", "i", "g", "h", "t">>
All == "all"
ActiveOnly == "active"
CompletedOnly == "completed"
Filters == {All, ActiveOnly, CompletedOnly}

\* Date.now() before the clock has advanced (a two-digit number follows a
\* one-digit one after the first tick).
Epoch == 9
DateNow(k) == Epoch + k

\* The k-th value of crypto.randomUUID(): never one returned before, never
\* an id found in storage.
randomUUID(k) == <<"u">> \o NatToChars(k)

\* {id, text, done, createdAt}
Todo(id, text, done, createdAt) ==
  Obj(<<[k |-> <<"i", "d">>, v |-> Str(id)],
        [k |-> <<"t", "e", "x", "t">>, v |-> Str(text)],
        [k |-> <<"d", "o", "n", "e">>, v |-> Bool(done)],
        [k |-> <<"c", "r", "e", "a", "t", "e", "d", "A", "t">>, v |-> Num(createdAt)]>>)

IdKey == <<"i", "d">>
DoneKey == <<"d", "o", "n", "e">>

\* String.prototype.trim's white space, as far as the input alphabet has it.
TrimWhitespace == {" ", "\t", "\n", "\r", "\f"}

RECURSIVE TrimStart(_)
TrimStart(s) ==
  IF s # <<>> /\ Head(s) \in TrimWhitespace THEN TrimStart(Tail(s)) ELSE s

RECURSIVE TrimEnd(_)
TrimEnd(s) ==
  IF s # <<>> /\ s[Len(s)] \in TrimWhitespace
  THEN TrimEnd(SubSeq(s, 1, Len(s) - 1)) ELSE s

\* Mutant of Trim: only the leading white space goes (trimStart for trim).
TrimLeadingOnly(s) == TrimStart(s)

\* input.trim()
Trim(s) == TrimEnd(TrimStart(s))

\* loadInitialTodos(): hasWindow is typeof window !== 'undefined', readOK is
\* whether localStorage.getItem returns rather than throws, raw is the value
\* of the items key.
loadInitialTodos(hasWindow, readOK, raw) ==
  IF ~hasWindow THEN <<>>
  ELSE IF ~readOK THEN <<>>
  ELSE IF raw.t = "null" \/ raw.s = <<>> THEN <<>>
  ELSE LET parsed == JSONparse(raw.s) IN
       IF ~parsed.ok THEN <<>>
       ELSE IF parsed.v.t # "arr" THEN <<>>
       ELSE parsed.v.a

Threw == "throw"

\* loadInitialTheme(): Dark, Light, or Threw when getItem throws.
loadInitialTheme(hasWindow, readOK, raw, prefersDark) ==
  IF ~hasWindow THEN Dark
  ELSE IF ~readOK THEN Threw
  ELSE IF raw.t = "str" /\ (raw.s = Dark \/ raw.s = Light) THEN raw.s
  ELSE IF Truthy(prefersDark) THEN Dark ELSE Light

\* (t) => !t.done
NotDone(t) == ~Truthy(Get(t, DoneKey))
\* (t) => t.done
IsDone(t) == Truthy(Get(t, DoneKey))

\* Mutant of filteredTodos: the 'completed' case filters like the 'active' one.
filteredTodosSameTest(ts, f) ==
  CASE f = ActiveOnly -> SelectSeq(ts, NotDone)
    [] f = CompletedOnly -> SelectSeq(ts, NotDone)
    [] OTHER -> ts

filteredTodos(ts, f) ==
  CASE f = ActiveOnly -> SelectSeq(ts, NotDone)
    [] f = CompletedOnly -> SelectSeq(ts, IsDone)
    [] OTHER -> ts

remainingCount(ts) == Len(SelectSeq(ts, NotDone))

\* Rendering reads t.done and todo.id of every element: a TypeError when
\* one of them is null.
RenderThrows(ts) == \E i \in 1..Len(ts) : Throws(ts[i])

\* Mutant of ToggleMap: the comparison is inverted (!== for ===).
ToggleMapInverted(prev, id) ==
  [i \in 1..Len(prev) |->
     IF ~StrictEq(Get(prev[i], IdKey), i, id)
     THEN Obj(ObjPut(Spread(prev[i]), DoneKey,
                     Bool(~Truthy(Get(prev[i], DoneKey)))))
     ELSE prev[i]]

\* prev.map((todo) => todo.id === id ? { ...todo, done: !todo.done } : todo)
ToggleMap(prev, id) ==
  [i \in 1..Len(prev) |->
     IF StrictEq(Get(prev[i], IdKey), i, id)
     THEN Obj(ObjPut(Spread(prev[i]), DoneKey,
                     Bool(~Truthy(Get(prev[i], DoneKey)))))
     ELSE prev[i]]

\* prev.filter((todo) => todo.id !== id)
RECURSIVE DeleteFrom(_, _, _)
\* The tasks of prev from the i-th on whose id is not id.
DeleteFrom(prev, i, id) ==
  IF i > Len(prev) THEN <<>>
  ELSE (IF StrictEq(Get(prev[i], IdKey), i, id) THEN <<>> ELSE <<prev[i]>>)
       \o DeleteFrom(prev, i + 1, id)

DeleteFilter(prev, id) == DeleteFrom(prev, 1, id)

\* Mutant of ClearFilter: the test is inverted (t.done for !t.done).
ClearFilterKeepsDone(prev) == SelectSeq(prev, IsDone)

\* prev.filter((t) => !t.done)
ClearFilter(prev) == SelectSeq(prev, NotDone)

\* Mutant of Prepend: the new task goes last ([...prev, newTodo]).
AppendLast(newTodo, prev) == prev \o <<newTodo>>

\* [newTodo, ...prev]
Prepend(newTodo, prev) == <<newTodo>> \o prev

\* What a render of ts followed by a write to localStorage ends in: a
\* TypeError from the render, the error setItem throws, or nothing.  Nobody
\* catches either error: React unmounts the component.
Outcome(ts, writeOK) ==
  IF RenderThrows(ts) THEN "type" ELSE IF ~writeOK THEN "storage" ELSE "none"

PhaseAfter(e) == IF e = "none" THEN "running" ELSE "crashed"

\* Mutant of StoredTodos: the effect writes the tasks that are not done
\* instead of the whole collection.
StoredTodosActiveOnly(ts) == Str(JSONstringify(Arr(SelectSeq(ts, NotDone))))

\* The value the effect [todos] writes: JSON.stringify(todos).
StoredTodos(ts) == Str(JSONstringify(Arr(ts)))

\* ------------------------------------------------------------------ input
\* Records found under the items key when the page opens.
Saved1 == Todo(<<"s", "1">>, <<"b", Quote, Backslash>>, TRUE, 5)
SavedTwin == Todo(<<"s", "1">>, <<"c">>, FALSE, 7)

RawItems ==
  { NoItem,
    Str(<<>>),
    Str(<<"{">>),
    Str(<<"4", "2">>),
    Str(<<"{", "}">>),
    Str(<<" ", "[", " ", "]">>),
    Str(<<"[", "1", "]">>),
    Str(<<"[", "n", "u", "l", "l", "]">>),
    Str(JSONstringify(Arr(<<Saved1>>))),
    Str(JSONstringify(Arr(<<SavedTwin, Saved1>>))) }

RawThemes == {NoItem, Str(Dark), Str(Light), Str(<<"b", "l", "u", "e">>)}

\* The host a render finds: whether window is defined, and the value of
\* window.matchMedia?.('(prefers-color-scheme: dark)').matches.
Hosts ==
  [window : BOOLEAN, prefersDark : {Undefined, Bool(TRUE), Bool(FALSE)}]

\* Texts typed into the input field.
Inputs == { <<" ", "\t">>, <<" ", Quote, " ", Backslash, "\t">> }

\* Ids a reference that has gone stale may carry: those of tasks added or
\* stored earlier, and one no task ever had.
StaleIds ==
  {randomUUID(k) : k \in 1..MaxIds} \cup {<<"s", "1">>, <<"s", "9">>}

\* The arguments toggleTodo and deleteTodo may get: todo.id of a task of the
\* collection (whatever value that is), or a stale id.
ClickIds(ts) ==
  {IdArg(Get(ts[k], IdKey), k) : k \in 1..Len(ts)}
    \cup {IdArg(Str(s), 0) : s \in StaleIds}

\* Whether a text is empty once its white space is trimmed.
IsBlank(s) == \A i \in 1..Len(s) : s[i] \in {" ", "\t", "\n", "\r", "\f"}

\* What a submission of s adds to the history's count of non-blank submissions.
Submitted(s) == IF IsBlank(s) THEN 0 ELSE 1

\* ---------------------------------------------------------------- actions
Init ==
  /\ phase = "boot"
  /\ err = "none"
  /\ todos = <<>>
  /\ input = <<>>
  /\ filter = All
  /\ theme = Dark
  /\ darkClass = FALSE
  /\ itemsKey \in RawItems
  /\ themeKey \in RawThemes
  /\ uuids = 0
  /\ ticks = 0
  /\ hist = [adds |-> 0, pure |-> FALSE]

\* The component state once React has unmounted App.
Unmounted ==
  /\ todos' = <<>>
  /\ input' = <<>>
  /\ filter' = All
  /\ theme' = Dark
  /\ hist' = [adds |-> 0, pure |-> FALSE]

\* The first render of App (the useState initializers) and its two effects.
\* Each of the four localStorage accesses may throw on its own: the getItem
\* of loadInitialTodos (caught), the getItem of loadInitialTheme, the setItem
\* of the effect [todos] and the setItem of the effect [theme].  When the
\* first effect throws, whether the second still runs depends on the React
\* version (later).
Mount(host) ==
  /\ phase = "boot"
  /\ \E readItemsOK \in BOOLEAN, readThemeOK \in BOOLEAN,
        writeItemsOK \in BOOLEAN, writeThemeOK \in BOOLEAN, later \in BOOLEAN :
       LET ts == loadInitialTodos(host.window, readItemsOK, itemsKey)
           th == loadInitialTheme(host.window, readThemeOK, themeKey,
                                  host.prefersDark)
           themeRuns == writeItemsOK \/ later
           e == IF th = Threw THEN "storage"
                ELSE Outcome(ts, writeItemsOK /\ writeThemeOK)
       IN IF ~host.window
          THEN /\ todos' = ts /\ theme' = th
               /\ phase' = "static" /\ err' = "none"
               /\ UNCHANGED <<input, filter, hist, darkClass, itemsKey, themeKey>>
          ELSE /\ err' = e
               /\ phase' = PhaseAfter(e)
               /\ IF e = "none"
                  THEN /\ todos' = ts /\ theme' = th
                       /\ hist' = [adds |-> 0, pure |-> ts = <<>>]
                       /\ UNCHANGED <<input, filter>>
                  ELSE Unmounted
               /\ IF th = Threw \/ RenderThrows(ts)
                  THEN UNCHANGED <<darkClass, itemsKey, themeKey>>
                  ELSE /\ itemsKey' = IF writeItemsOK THEN StoredTodos(ts)
                                      ELSE itemsKey
                       /\ darkClass' = IF themeRuns THEN (th = Dark)
                                       ELSE darkClass
                       /\ themeKey' = IF themeRuns /\ writeThemeOK THEN Str(th)
                                      ELSE themeKey
  /\ UNCHANGED <<uuids, ticks>>

\* onChange of the input field: setInput(e.target.value).
setInput(s) ==
  /\ phase = "running"
  /\ input' = s
  /\ UNCHANGED <<phase, err, todos, filter, theme, darkClass, itemsKey,
                 themeKey, uuids, ticks, hist>>

\* setTodos(next), the render and the effect [todos] that follow it; the
\* handler leaves nextInput in the input field.
CommitTodos(next, nextInput, nextHist, writeOK) ==
  LET e == Outcome(next, writeOK) IN
  /\ err' = e
  /\ phase' = PhaseAfter(e)
  /\ IF e = "none"
     THEN /\ todos' = next /\ input' = nextInput /\ hist' = nextHist
          /\ itemsKey' = StoredTodos(next)
          /\ UNCHANGED <<filter, theme>>
     ELSE Unmounted /\ UNCHANGED itemsKey
  /\ UNCHANGED <<darkClass, themeKey>>

\* onSubmit of the form.
handleAddTodo ==
  /\ phase = "running"
  /\ LET text == Trim(input) IN
     IF text = <<>>
     THEN /\ hist' = [hist EXCEPT !.adds = @ + Submitted(input)]
          /\ UNCHANGED <<phase, err, todos, input, filter, theme, darkClass,
                         itemsKey, themeKey, uuids, ticks>>
     ELSE /\ uuids < MaxIds
          /\ ticks' = ticks + 1
          /\ uuids' = uuids + 1
          /\ \E writeOK \in BOOLEAN :
               CommitTodos(Prepend(Todo(randomUUID(uuids'), text, FALSE,
                                        DateNow(ticks')), todos),
                           <<>>, [hist EXCEPT !.adds = @ + Submitted(input)],
                           writeOK)

toggleTodo(id) ==
  /\ phase = "running"
  /\ \E writeOK \in BOOLEAN :
       CommitTodos(ToggleMap(todos, id), input,
                   [hist EXCEPT !.pure = FALSE], writeOK)
  /\ UNCHANGED <<uuids, ticks>>

deleteTodo(id) ==
  /\ phase = "running"
  /\ \E writeOK \in BOOLEAN :
       CommitTodos(DeleteFilter(todos, id), input,
                   [hist EXCEPT !.pure = FALSE], writeOK)
  /\ UNCHANGED <<uuids, ticks>>

clearCompleted ==
  /\ phase = "running"
  /\ \E writeOK \in BOOLEAN :
       CommitTodos(ClearFilter(todos), input,
                   [hist EXCEPT !.pure = FALSE], writeOK)
  /\ UNCHANGED <<uuids, ticks>>

\* onClick of a filter button: setFilter(key).
setFilter(f) ==
  /\ phase = "running"
  /\ filter' = f
  /\ UNCHANGED <<phase, err, todos, input, theme, darkClass, itemsKey,
                 themeKey, uuids, ticks, hist>>

\* (prev) => prev === 'dark' ? 'light' : 'dark'
FlipTheme(prev) == IF prev = Dark THEN Light ELSE Dark

\* setTheme(flip) and the effect [theme]: the class of <html>, then
\* setItem(THEME_KEY, theme).
handleThemeToggle ==
  /\ phase = "running"
  /\ darkClass' = (FlipTheme(theme) = Dark)
  /\ \E writeOK \in BOOLEAN :
       /\ err' = IF writeOK THEN "none" ELSE "storage"
       /\ phase' = PhaseAfter(err')
       /\ IF writeOK
          THEN /\ theme' = FlipTheme(theme)
               /\ themeKey' = Str(theme')
               /\ UNCHANGED <<todos, input, filter, hist>>
          ELSE Unmounted /\ UNCHANGED themeKey
  /\ UNCHANGED <<itemsKey, uuids, ticks>>

\* The page is opened again ("they survive refreshes and browser
\* restarts"): the component state is gone, localStorage stays.
Reload ==
  /\ phase \in {"running", "crashed"}
  /\ phase' = "boot"
  /\ err' = "none"
  /\ Unmounted
  /\ darkClass' = FALSE
  /\ UNCHANGED <<itemsKey, themeKey, uuids, ticks>>

Next ==
  \/ \E host \in Hosts : Mount(host)
  \/ \E s \in Inputs : setInput(s)
  \/ handleAddTodo
  \/ \E id \in ClickIds(todos) : toggleTodo(id)
  \/ \E id \in ClickIds(todos) : deleteTodo(id)
  \/ clearCompleted
  \/ \E f \in Filters : setFilter(f)
  \/ handleThemeToggle
  \/ Reload

Spec == Init /\ [][Next]_vars

\* ------------------------------------------------------------------ claims
RECURSIVE IsSubseq(_, _)
\* Whether a is b with some elements left out (the order kept).
IsSubseq(a, b) ==
  IF a = <<>> THEN TRUE
  ELSE IF b = <<>> THEN FALSE
  ELSE IF Head(a) = Head(b) THEN IsSubseq(Tail(a), Tail(b))
  ELSE IsSubseq(a, Tail(b))

\* Whether a task of ts has the id.
HasId(ts, id) == \E i \in 1..Len(ts) : Get(ts[i], IdKey) = Str(id)

\* Whether the argument of toggleTodo or deleteTodo is the id of a task.
IsIdOfTask(ts, id) ==
  \E i \in 1..Len(ts) :
    IF id.v.t \in {"obj", "arr"} THEN id.from = i
    ELSE Get(ts[i], IdKey) = id.v

DoneIsTrue(t) == Get(t, DoneKey) = Bool(TRUE)
DoneIsNotTrue(t) == Get(t, DoneKey) # Bool(TRUE)

\* C1: whenever an operation has completed (the component is running), the
\* items key holds a text from which loadInitialTodos rebuilds exactly the
\* collection in memory: same length, same order, same fields.
C1_StorageMirrorsTodos ==
  phase = "running" =>
    /\ itemsKey.t = "str"
    /\ loadInitialTodos(TRUE, TRUE, itemsKey) = todos

\* A collection with an added task whose text needs escaping and a completed
\* task has been persisted and reads back equal.
C1_Witness ==
  /\ phase = "running"
  /\ Len(todos) >= 2
  /\ HasId(todos, randomUUID(1))
  /\ \E i \in 1..Len(todos) : DoneIsTrue(todos[i])
  /\ loadInitialTodos(TRUE, TRUE, itemsKey) = todos

\* A well-formed task record: {id: string, text: string, done: boolean,
\* createdAt: number}.
IsTaskLike(x) ==
  /\ x.t = "obj"
  /\ Get(x, IdKey).t = "str"
  /\ Get(x, <<"t", "e", "x", "t">>).t = "str"
  /\ Get(x, DoneKey).t = "bool"
  /\ Get(x, <<"c", "r", "e", "a", "t", "e", "d", "A", "t">>).t = "num"

\* No two tasks of ts have the same id.
UniqueIds(ts) ==
  \A i \in 1..Len(ts), j \in 1..Len(ts) :
    i # j => Get(ts[i], IdKey) # Get(ts[j], IdKey)

\* The items key holds a well-formed sequence of task records (section 3 of
\* the specification: ids unique within the collection).
WellFormedItems(raw) ==
  /\ raw.t = "str"
  /\ JSONparse(raw.s).ok
  /\ JSONparse(raw.s).v.t = "arr"
  /\ \A i \in 1..Len(JSONparse(raw.s).v.a) : IsTaskLike(JSONparse(raw.s).v.a[i])
  /\ UniqueIds(JSONparse(raw.s).v.a)

\* C2: at startup, when the items key is absent, unparseable or not a
\* well-formed sequence of task records, the first render starts from the
\* empty collection and no TypeError comes out of it.
C2_MalformedItemsGiveEmpty ==
  [][(phase = "boot" /\ phase' # "boot" /\ ~WellFormedItems(itemsKey))
       => (todos' = <<>> /\ err' # "type")]_vars

\* The theme the three-step fallback of the claim chooses.
ExpectedTheme(raw, host) ==
  IF raw.t = "str" /\ raw.s \in {Dark, Light} THEN raw.s
  ELSE IF host.prefersDark.t = "bool"
       THEN (IF host.prefersDark.b THEN Dark ELSE Light)
  ELSE Dark

\* C3: the first render in a browser takes the theme from the theme key when
\* it holds 'dark' or 'light', else from the prefers-dark signal when the
\* host has one, else 'dark'.
C3_ThemeFallback ==
  [][\A host \in Hosts :
       (Mount(host) /\ phase' = "running")
         => theme' = ExpectedTheme(themeKey, host)]_vars

\* C4: a failing localStorage never surfaces: no operation ends in the
\* uncaught storage error that unmounts the component.
C4_StorageFailureIsSilent == err # "storage"

\* The text without its leading and trailing white space.
TrimSpec(s) ==
  IF IsBlank(s) THEN <<>>
  ELSE LET ink == {i \in 1..Len(s) : ~IsBlank(<<s[i]>>)}
           lo == CHOOSE i \in ink : \A j \in ink : i <= j
           hi == CHOOSE i \in ink : \A j \in ink : j <= i
       IN SubSeq(s, lo, hi)

\* What a submission does to the collection.
C5_AddStep ==
  (handleAddTodo /\ phase' = "running") =>
    IF IsBlank(input) THEN todos' = todos
    ELSE /\ Len(todos') = Len(todos) + 1
         /\ Tail(todos') = todos
         /\ Get(Head(todos'), <<"t", "e", "x", "t">>) = Str(TrimSpec(input))
         /\ Get(Head(todos'), DoneKey) = Bool(FALSE)
         /\ Get(Head(todos'), IdKey).t = "str"
         /\ ~HasId(todos, Get(Head(todos'), IdKey).s)

\* C5: a submission whose text is blank leaves the collection as it is; any
\* other prepends one task (trimmed text, not done, an id no task has) and
\* leaves the rest as it was; from an empty collection and additions only,
\* the length is the number of non-blank submissions.
C5_AddPrependsOne ==
  /\ []((phase = "running" /\ hist.pure) => Len(todos) = hist.adds)
  /\ [][C5_AddStep]_vars

\* Two non-blank submissions (and blank ones, which the history does not
\* count) have built a collection of two from the empty one.
C5_Witness ==
  /\ phase = "running"
  /\ hist.pure
  /\ hist.adds = 2
  /\ Len(todos) = 2
  /\ Get(todos[1], <<"t", "e", "x", "t">>) = Str(<<Quote, " ", Backslash>>)

\* C6: in every state of the running store no two tasks have the same id.
C6_IdsUnique == phase = "running" => UniqueIds(todos)

\* C7: toggleTodo and deleteTodo with an id no task has leave the
\* collection, the filter and the theme as they were.
C7_UnknownIdIsNoOp ==
  [][\A id \in ClickIds(todos) :
       (phase' = "running" /\ ~IsIdOfTask(todos, id)
          /\ (toggleTodo(id) \/ deleteTodo(id)))
       => (todos' = todos /\ filter' = filter /\ theme' = theme)]_vars

\* A toggle and a delete with an id that no task of a non-empty collection
\* has are about to complete, under a filter and a theme other than the
\* defaults.
C7_Witness ==
  /\ phase = "running"
  /\ Len(todos) >= 2
  /\ filter = CompletedOnly
  /\ \E i \in 1..Len(todos) : DoneIsTrue(todos[i])
  /\ ~HasId(todos, <<"s", "9">>)
  /\ ENABLED (toggleTodo(IdArg(Str(<<"s", "9">>), 0)) /\ phase' = "running")
  /\ ENABLED (deleteTodo(IdArg(Str(<<"s", "9">>), 0)) /\ phase' = "running")

\* A task without its done flag: what toggling never changes.
Core(t) == Obj(ObjPut(Spread(t), DoneKey, Null))
Cores(ts) == [i \in 1..Len(ts) |-> Core(ts[i])]

\* The number of the submission that made the task, 0 for a task that
\* came from storage when the store was first opened.
AddedAt(t) ==
  IF \E k \in 1..MaxIds : StrictEqStr(Get(t, IdKey), randomUUID(k))
  THEN CHOOSE k \in 1..MaxIds : StrictEqStr(Get(t, IdKey), randomUUID(k))
  ELSE 0

\* Later additions come first.
NewestFirst(ts) ==
  \A i \in 1..Len(ts), j \in 1..Len(ts) :
    i < j => (AddedAt(ts[i]) > AddedAt(ts[j]) \/ AddedAt(ts[j]) = 0)

\* An operation either prepends one task or leaves some out; it never
\* reorders the tasks that stay.
C8_OrderStep ==
  (phase = "running" /\ phase' = "running") =>
    \/ IsSubseq(Cores(todos'), Cores(todos))
    \/ (todos' # <<>> /\ Cores(Tail(todos')) = Cores(todos)
          /\ AddedAt(Head(todos')) > 0)

\* C8: the tasks that stay in the collection keep their relative order under
\* every operation, and a task added later precedes a task added earlier.
C8_NewestFirstKept ==
  /\ [](phase = "running" => NewestFirst(todos))
  /\ [][C8_OrderStep]_vars

\* Two tasks added in this order sit newest first on top of a stored one,
\* after a toggle, a delete or a clear has changed the collection.
C8_Witness ==
  /\ phase = "running"
  /\ ~hist.pure
  /\ Len(todos) >= 3
  /\ AddedAt(todos[1]) = 2
  /\ AddedAt(todos[2]) = 1
  /\ DoneIsTrue(todos[2])
  /\ AddedAt(todos[3]) = 0

\* C9: clearCompleted removes exactly the tasks whose done is true and keeps
\* the others as they are, in order; right after it the completed view is
\* empty and remainingCount is the length of the collection.
C9_ClearRemovesDone ==
  [][(clearCompleted /\ phase' = "running")
       => /\ todos' = SelectSeq(todos, DoneIsNotTrue)
          /\ filteredTodos(todos', CompletedOnly) = <<>>
          /\ remainingCount(todos') = Len(todos')]_vars

\* clearCompleted is about to complete on a collection from which it
\* removes a task and in which it keeps another.
C9_Witness ==
  /\ phase = "running"
  /\ \E i \in 1..Len(todos) : DoneIsTrue(todos[i])
  /\ \E i \in 1..Len(todos) : ~DoneIsTrue(todos[i])
  /\ ENABLED (clearCompleted /\ phase' = "running" /\ todos' # todos
                /\ todos' # <<>>)

\* C10: the active and the completed view split the collection: each task
\* is in exactly one of them, the view 'all' is the collection, every view
\* keeps the collection's order, and remainingCount is the length of the
\* active view.
C10_ViewsPartition ==
  phase \in {"running", "static"} =>
    LET active == filteredTodos(todos, ActiveOnly)
        completed == filteredTodos(todos, CompletedOnly)
    IN /\ filteredTodos(todos, All) = todos
       /\ IsSubseq(active, todos)
       /\ IsSubseq(completed, todos)
       /\ Len(active) + Len(completed) = Len(todos)
       /\ \A i \in 1..Len(active), j \in 1..Len(completed) :
            active[i] # completed[j]
       /\ \A k \in 1..Len(todos) :
            (\E i \in 1..Len(active) : active[i] = todos[k])
              # (\E j \in 1..Len(completed) : completed[j] = todos[k])
       /\ remainingCount(todos) = Len(active)

\* A collection with completed and active tasks is shown under the
\* 'completed' filter.
C10_Witness ==
  /\ phase = "running"
  /\ filter = CompletedOnly
  /\ Len(filteredTodos(todos, filter)) >= 1
  /\ remainingCount(todos) >= 2

====
